---- MODULE Spec2Model ----
(***************************************************************************)
(* Model of the experimentation frontend: the credential gate              *)
(* (get_current_user), the credential issuance endpoint (POST /auth), the  *)
(* protected routes and the LiteLLM catalog client (fetch_models).         *)
(*                                                                         *)
(* Python values are tagged records [t |-> <type name>, ...] so that None, *)
(* strings, integers, lists and dicts can be compared with each other the  *)
(* way Python compares them.  Strings are TLA+ strings; slicing, prefix    *)
(* tests and replacement are computed character by character.              *)
(***************************************************************************)
EXTENDS Integers, Sequences, FiniteSets, TLC

VARIABLES COOKIE_DOMAIN, jar, issuedFor, pc, req, gate, outbound, upstream, data, resp

vars == <<COOKIE_DOMAIN, jar, issuedFor, pc, req, gate, outbound, upstream, data, resp>>

(***************************************************************************)
(* Bounds of the model.                                                    *)
(***************************************************************************)
\* user_id form values are drawn from 0..MaxUserId
MaxUserId == 2
\* longest `data` list of an upstream body handed to fetch_models directly
MaxData == 2
\* longest `data` list of an upstream body answered to the protected route
MaxRouteData == 1
\* how far past the 200-character cut an upstream error body may run
MaxOverrun == 2

(***************************************************************************)
(* Program constants.                                                      *)
(***************************************************************************)
\* exc.response.text[:200]
TextLimit == 200

(***************************************************************************)
(* Python values.                                                          *)
(***************************************************************************)
None == [t |-> "NoneType"]
PyStr(s) == [t |-> "str", s |-> s]
PyInt(n) == [t |-> "int", n |-> n]
PyList(items) == [t |-> "list", items |-> items]
PyDict(f) == [t |-> "dict", f |-> f]
EmptyFn == [k \in {} |-> None]

\* Python truthiness (bool(v)), as used by `if token:` / `not email`
Truthy(v) ==
    CASE v.t = "NoneType" -> FALSE
      [] v.t = "str" -> v.s # ""
      [] v.t = "int" -> v.n # 0
      [] v.t = "list" -> Len(v.items) > 0
      [] v.t = "dict" -> DOMAIN v.f # {}
      [] OTHER -> TRUE

\* str.startswith
StartsWith(s, p) == Len(s) >= Len(p) /\ SubSeq(s, 1, Len(p)) = p

\* s[n:] for a string
Drop(s, n) == IF n >= Len(s) THEN "" ELSE SubSeq(s, n + 1, Len(s))

\* s[:n] for a string
Take(s, n) == IF n >= Len(s) THEN s ELSE SubSeq(s, 1, n)

\* str.replace(old, new): every non-overlapping occurrence, left to right
RECURSIVE StrReplace(_, _, _)
StrReplace(s, old, new) ==
    IF s = "" THEN ""
    ELSE IF StartsWith(s, old)
         THEN new \o StrReplace(Drop(s, Len(old)), old, new)
         ELSE SubSeq(s, 1, 1) \o StrReplace(Drop(s, 1), old, new)

\* str(n) for a natural number
Digit(d) == SubSeq("0123456789", d + 1, d + 1)
RECURSIVE IntToStr(_)
IntToStr(n) == IF n < 10 THEN Digit(n) ELSE IntToStr(n \div 10) \o Digit(n % 10)

\* a string of n characters, the last one unlike the others
RECURSIVE Xs(_)
Xs(n) == IF n = 0 THEN ""
         ELSE LET h == Xs(n \div 2) IN h \o h \o (IF n % 2 = 1 THEN "x" ELSE "")
Filler(n) == IF n = 0 THEN "" ELSE Xs(n - 1) \o "!"

(***************************************************************************)
(* Tokens.  jwt.decode verifies the signature and the validity window      *)
(* under (SECRET_KEY, ALGORITHM) and returns the claims, or raises         *)
(* JWTError.  The signed tokens that exist are listed in TokenTable; any   *)
(* other string is malformed.                                              *)
(***************************************************************************)
TokenTable ==
    { [tok |-> "t.a1",      sig |-> "valid",   claims |-> [sub |-> PyStr("a@x"), id |-> PyInt(1)]],
      [tok |-> "t.b2",      sig |-> "valid",   claims |-> [sub |-> PyStr("b@x"), id |-> PyInt(2)]],
      [tok |-> "t.a0",      sig |-> "valid",   claims |-> [sub |-> PyStr("a@x"), id |-> PyInt(0)]],
      [tok |-> "t.nosub1",  sig |-> "valid",   claims |-> [id |-> PyInt(1)]],
      [tok |-> "t.anoid",   sig |-> "valid",   claims |-> [sub |-> PyStr("a@x")]],
      [tok |-> "t.forged1", sig |-> "bad",     claims |-> [sub |-> PyStr("a@x"), id |-> PyInt(1)]],
      [tok |-> "t.old1",    sig |-> "expired", claims |-> [sub |-> PyStr("a@x"), id |-> PyInt(1)]] }

SignedTokens == { e.tok : e \in TokenTable }
Entry(tok) == CHOOSE e \in TokenTable : e.tok = tok

\* jwt.decode(token, SECRET_KEY, algorithms=[ALGORITHM])
jwt_decode(token) ==
    IF token \in SignedTokens /\ Entry(token).sig = "valid"
    THEN [ok |-> TRUE, payload |-> Entry(token).claims]
    ELSE [ok |-> FALSE, payload |-> EmptyFn]

\* payload.get(key)
payload_get(payload, key) == IF key \in DOMAIN payload THEN payload[key] ELSE None

(***************************************************************************)
(* get_current_user: the credential gate.                                  *)
(***************************************************************************)
Raise(status, detail, token) ==
    [raised |-> TRUE, status |-> status, detail |-> detail, user |-> None, token |-> token]

\* select_token with the two locations tried in the other order
select_token_header_first(cookie, auth_header) ==
    IF Truthy(auth_header) /\ StartsWith(auth_header.s, "Bearer ")
    THEN PyStr(StrReplace(auth_header.s, "Bearer ", ""))
    ELSE cookie

\* lines 38-55: the cookie first, the Authorization header only without it
select_token(cookie, auth_header) ==
    IF Truthy(cookie) THEN cookie
    ELSE IF Truthy(auth_header) /\ StartsWith(auth_header.s, "Bearer ")
         THEN PyStr(StrReplace(auth_header.s, "Bearer ", ""))
         ELSE cookie

\* lines 62-74: the body of the try block.  It returns the identity or
\* raises: JWTError from jwt.decode, HTTPException for a bad payload.
gate_try_body(token) ==
    LET dec == jwt_decode(token.s)
        email == payload_get(dec.payload, "sub")
        user_id == payload_get(dec.payload, "id")
    IN  IF ~dec.ok THEN [exc |-> "JWTError", status |-> 0, detail |-> "", value |-> None]
        ELSE IF ~Truthy(email) \/ ~Truthy(user_id)
             THEN [exc |-> "HTTPException", status |-> 401,
                   detail |-> "Invalid token payload", value |-> None]
             ELSE [exc |-> "none", status |-> 0, detail |-> "",
                   value |-> PyDict([email |-> email, id |-> user_id])]

\* lines 76-81: the except clauses, tried in order.  HTTPException is not a
\* JWTError, so the `except Exception` clause is the one that catches it.
gate_except(r, token) ==
    IF r.exc = "none"
    THEN [raised |-> FALSE, status |-> 0, detail |-> "", user |-> r.value, token |-> token]
    ELSE IF r.exc = "JWTError"
         THEN Raise(401, "Invalid or expired token", token)
         ELSE Raise(401, "Authentication error", token)

verify_token(token) == gate_except(gate_try_body(token), token)

get_current_user(cookie, auth_header) ==
    LET token == select_token(cookie, auth_header)
    IN  IF ~Truthy(token) THEN Raise(401, "No token provided", token)
        ELSE verify_token(token)

(***************************************************************************)
(* Responses.                                                              *)
(***************************************************************************)
HttpError(status, detail) ==
    [status |-> status, detail |-> detail, location |-> "", set_cookie |-> None,
     content |-> None]

NoResponse == [status |-> 0, detail |-> PyStr(""), location |-> "", set_cookie |-> None,
               content |-> None]

(***************************************************************************)
(* POST /auth: authenticate.                                               *)
(***************************************************************************)
ACCESS_TOKEN == "access_token"
COOKIE_SECURE == FALSE
COOKIE_SAMESITE == "lax"

\* lines 112-121: the cookie parameters; the domain only if configured
cookie_params(token, domain) ==
    IF Truthy(domain)
    THEN PyDict([key |-> ACCESS_TOKEN, value |-> token, httponly |-> TRUE,
                 secure |-> COOKIE_SECURE, samesite |-> COOKIE_SAMESITE,
                 domain |-> domain.s])
    ELSE PyDict([key |-> ACCESS_TOKEN, value |-> token, httponly |-> TRUE,
                 secure |-> COOKIE_SECURE, samesite |-> COOKIE_SAMESITE])

\* auth_try_body without the comparison of the two ids
auth_try_body_no_compare(token, user_id, domain, fault) ==
    LET dec == jwt_decode(token)
    IN  IF ~dec.ok THEN [exc |-> "JWTError", resp |-> NoResponse]
        ELSE IF fault THEN [exc |-> "Exception", resp |-> NoResponse]
             ELSE [exc |-> "none",
                   resp |-> [status |-> 303, detail |-> PyStr(""), location |-> "/",
                             set_cookie |-> cookie_params(token, domain),
                             content |-> None]]

\* lines 93-126: the body of the try block.  `fault` is an exception of any
\* other class raised while the response is built.
auth_try_body(token, user_id, domain, fault) ==
    LET dec == jwt_decode(token)
        decoded_user_id == payload_get(dec.payload, "id")
    IN  IF ~dec.ok THEN [exc |-> "JWTError", resp |-> NoResponse]
        ELSE IF decoded_user_id # PyInt(user_id)
             THEN [exc |-> "HTTPException",
                   resp |-> HttpError(400, PyStr("User ID mismatch"))]
             ELSE IF fault THEN [exc |-> "Exception", resp |-> NoResponse]
                  ELSE [exc |-> "none",
                        resp |-> [status |-> 303, detail |-> PyStr(""), location |-> "/",
                                  set_cookie |-> cookie_params(token, domain),
                                  content |-> None]]

\* auth_except without the JWTError clause
auth_except_generic(r) ==
    IF r.exc = "none" THEN r.resp
    ELSE IF r.exc = "HTTPException" THEN r.resp
    ELSE HttpError(500, PyStr("Authentication failed"))

\* lines 128-135: the except clauses, tried in order
auth_except(r) ==
    IF r.exc = "none" THEN r.resp
    ELSE IF r.exc = "JWTError" THEN HttpError(401, PyStr("Invalid token"))
    ELSE IF r.exc = "HTTPException" THEN r.resp
    ELSE HttpError(500, PyStr("Authentication failed"))

authenticate(token, user_id, domain, fault) ==
    auth_except(auth_try_body(token, user_id, domain, fault))

(***************************************************************************)
(* fetch_models: the catalog client.                                       *)
(***************************************************************************)
LITELLM_URL == "http://localhost:4000"

Ok(v) == [exc |-> "none", msg |-> "", value |-> v]
Exc(type, msg) == [exc |-> type, msg |-> msg, value |-> None]

\* Python == on the values the client compares
PyEq(a, b) == a.t = b.t /\ a = b

\* v.get(key, default): only a dict has .get
py_get(v, key, default) ==
    IF v.t = "dict"
    THEN Ok(IF key \in DOMAIN v.f THEN v.f[key] ELSE default)
    ELSE Exc("AttributeError", "'" \o v.t \o "' object has no attribute 'get'")

RECURSIVE SetToSeq(_)
SetToSeq(S) == IF S = {} THEN <<>>
               ELSE LET x == CHOOSE y \in S : TRUE IN <<x>> \o SetToSeq(S \ {x})

\* the elements `for m in v` visits, or the TypeError it raises
py_iter(v) ==
    CASE v.t = "list" -> Ok(v.items)
      [] v.t = "str" -> Ok([i \in 1..Len(v.s) |-> PyStr(SubSeq(v.s, i, i))])
      [] v.t = "dict" -> Ok([i \in 1..Cardinality(DOMAIN v.f) |->
                                PyStr(SetToSeq(DOMAIN v.f)[i])])
      [] OTHER -> Exc("TypeError", "'" \o v.t \o "' object is not iterable")

\* lines 27-31: the list comprehension, left to right; the first exception
\* raised by an element ends it
RECURSIVE chat_models(_)
chat_models(models) ==
    IF models = <<>> THEN Ok(<<>>)
    ELSE LET m == Head(models)
             info == py_get(m, "model_info", PyDict(EmptyFn))
             mode == IF info.exc = "none" THEN py_get(info.value, "mode", None) ELSE info
             rest == chat_models(Tail(models))
         IN  IF mode.exc # "none" THEN mode
             ELSE IF rest.exc # "none" THEN rest
             ELSE IF PyEq(mode.value, PyStr("chat"))
                  THEN Ok(<<py_get(m, "model_name", None).value>> \o rest.value)
                  ELSE rest

\* the body of an upstream answer that is not JSON
NotJson == [t |-> "invalid"]

\* lines 21-31: the body of the try block, on what the upstream does
\* (raise_for_status raises HTTPStatusError for every status outside 2xx;
\* redirects are not followed)
fetch_try_body(up) ==
    IF up.kind # "response" THEN Exc(up.kind, up.msg) @@ [type |-> up.type]
    ELSE IF up.status < 200 \/ up.status > 299
         THEN Exc("HTTPStatusError", "") @@ [type |-> "HTTPStatusError"]
    ELSE IF up.json = NotJson
         THEN Exc("Exception", "Expecting value: line 1 column 1 (char 0)")
                  @@ [type |-> "JSONDecodeError"]
    ELSE LET got == py_get(up.json, "data", PyList(<<>>))
             it == IF got.exc = "none" THEN py_iter(got.value) ELSE got
             out == IF it.exc = "none" THEN chat_models(it.value) ELSE it
         IN  IF out.exc = "none" THEN out @@ [type |-> ""]
             ELSE [exc |-> "Exception", msg |-> out.msg, value |-> None, type |-> out.exc]

FetchResult(models, error) ==
    [service |-> "litellm", base_url |-> LITELLM_URL, models |-> models, error |-> error]

\* fetch_except with the whole body of the answer in the message
fetch_except_no_cut(r, up) ==
    IF r.exc = "none" THEN FetchResult(PyList(r.value), None)
    ELSE IF r.exc = "HTTPStatusError"
         THEN FetchResult(PyList(<<>>),
                  PyStr("HTTP " \o IntToStr(up.status) \o ": " \o up.text))
    ELSE IF r.exc = "RequestError"
         THEN FetchResult(PyList(<<>>), PyStr("Connection failed: " \o r.msg))
    ELSE FetchResult(PyList(<<>>), PyStr(r.type \o ": " \o r.msg))

\* lines 33-60: the return and the three except clauses
fetch_except(r, up) ==
    IF r.exc = "none" THEN FetchResult(PyList(r.value), None)
    ELSE IF r.exc = "HTTPStatusError"
         THEN FetchResult(PyList(<<>>),
                  PyStr("HTTP " \o IntToStr(up.status) \o ": " \o Take(up.text, TextLimit)))
    ELSE IF r.exc = "RequestError"
         THEN FetchResult(PyList(<<>>), PyStr("Connection failed: " \o r.msg))
    ELSE FetchResult(PyList(<<>>), PyStr(r.type \o ": " \o r.msg))

fetch_models(up) == fetch_except(fetch_try_body(up), up)

(***************************************************************************)
(* GET /api/litellm/models: what the route does with the client's result.  *)
(***************************************************************************)
\* models_response with one message for every error of the client
models_response_coarse(user, result) ==
    IF Truthy(result.error)
    THEN HttpError(500, PyStr("Failed to fetch models"))
    ELSE [status |-> 200, detail |-> PyStr(""), location |-> "", set_cookie |-> None,
          content |-> PyDict(result @@ [user_id |-> user.f.id])]

\* lines 175-189
models_response(user, result) ==
    IF Truthy(result.error)
    THEN HttpError(500, result.error)
    ELSE [status |-> 200, detail |-> PyStr(""), location |-> "", set_cookie |-> None,
          content |-> PyDict(result @@ [user_id |-> user.f.id])]

(***************************************************************************)
(* Inputs.                                                                 *)
(***************************************************************************)
\* values of the session cookie a request may carry
Cookies == {None, PyStr("")} \cup { PyStr(t) : t \in SignedTokens \cup {"junk"} }

\* values of the Authorization header a request may carry
Headers ==
    {None, PyStr("")} \cup
    { PyStr(h) : h \in {"Bearer t.a1", "Bearer t.b2", "Bearer t.forged1", "t.a1",
                        "Bearer ", "bearer t.a1", "Bearer Bearer t.a1", "Basic dXNlcg=="} }

\* values of the `token` form field of POST /auth
FormTokens == SignedTokens \cup {"junk"}

\* values of the `user_id` form field of POST /auth
UserIds == 0..MaxUserId

\* values of the COOKIE_DOMAIN setting: unset, set empty, set
Domains == {None, PyStr(""), PyStr(".example.com")}

ProtectedRoutes == {"/", "/api/config", "/api/litellm/models"}

\* model descriptors of an upstream body
ChatInfo == PyDict([mode |-> PyStr("chat")])
Descriptors ==
    { PyDict([model_name |-> PyStr("a"), model_info |-> ChatInfo]),
      PyDict([model_name |-> PyStr("b"), model_info |-> PyDict([mode |-> PyStr("embedding")])]),
      PyDict([model_name |-> PyStr("c"), model_info |-> ChatInfo]),
      PyDict([model_name |-> PyStr("d")]),
      PyDict([model_name |-> PyStr("e"), model_info |-> None]),
      PyDict([model_name |-> PyStr("f"), model_info |-> PyStr("chat")]),
      PyDict([model_name |-> PyStr("g"), model_info |-> PyDict([id |-> PyStr("x")])]),
      PyDict([model_info |-> ChatInfo]),
      PyStr("a") }

SeqsUpTo(S, n) == UNION { [1..k -> S] : k \in 0..n }

\* JSON bodies of a 2xx answer whose `data` is a list of at most n descriptors
ListBodies(n) == { PyDict([data |-> PyList(l)]) : l \in SeqsUpTo(Descriptors, n) }

\* JSON bodies of a 2xx answer of another shape, and a body that is not JSON
OddBodies ==
    { PyDict([object |-> PyStr("list")]),
      PyDict([data |-> None]),
      PyDict([data |-> PyStr("")]),
      PyDict([data |-> PyStr("ab")]),
      PyDict([data |-> PyDict(EmptyFn)]),
      PyDict([data |-> PyDict([a |-> ChatInfo])]),
      PyDict([data |-> PyInt(3)]),
      PyList(<<>>),
      None,
      NotJson }

\* bodies of an answer that is not 2xx: around the 200-character cut
ErrorTexts ==
    {"", "overloaded", Filler(TextLimit - 1)} \cup
    { Filler(TextLimit + k) : k \in 0..MaxOverrun }

Response(status, text, json) ==
    [kind |-> "response", status |-> status, text |-> text, json |-> json,
     type |-> "", msg |-> ""]

Failure(kind, type, msg) ==
    [kind |-> kind, status |-> 0, text |-> "", json |-> NotJson, type |-> type, msg |-> msg]

\* what the upstream can do with the one GET, for `data` lists of at most n
Upstream(n) ==
    { Response(st, "", b) : st \in {200, 201}, b \in ListBodies(n) \cup OddBodies } \cup
    { Response(st, t, NotJson) : st \in {301, 404, 500, 503}, t \in ErrorTexts } \cup
    { Failure("RequestError", "ConnectError", "All connection attempts failed"),
      Failure("RequestError", "ReadTimeout", ""),
      Failure("Exception", "InvalidURL", "Invalid non-printable ASCII character in URL") }

(***************************************************************************)
(* State.                                                                  *)
(***************************************************************************)
NoRequest ==
    [route |-> "", cookie |-> None, header |-> None, viaJar |-> FALSE,
     token |-> "", user_id |-> 0, fault |-> FALSE]

NoGate == [raised |-> FALSE, status |-> 0, detail |-> "", user |-> None, token |-> None]

NoData == FetchResult(None, None)

NoUpstream == Failure("", "", "")

Init ==
    /\ COOKIE_DOMAIN \in Domains
    /\ jar = None
    /\ issuedFor = 0
    /\ pc = "idle"
    /\ req = NoRequest
    /\ gate = NoGate
    /\ outbound = 0
    /\ upstream = NoUpstream
    /\ data = NoData
    /\ resp = NoResponse

(***************************************************************************)
(* Actions.                                                                *)
(***************************************************************************)
\* a client sends a request to a protected route, with the cookie of its
\* jar or with any cookie, and with any Authorization header
NewRequest ==
    /\ pc = "idle"
    /\ \E route \in ProtectedRoutes, header \in Headers, viaJar \in BOOLEAN :
         \E cookie \in IF viaJar THEN {jar} \ {None} ELSE Cookies :
            req' = [NoRequest EXCEPT !.route = route, !.cookie = cookie,
                                     !.header = header, !.viaJar = viaJar]
    /\ pc' = "gate"
    /\ gate' = NoGate
    /\ outbound' = 0
    /\ upstream' = NoUpstream
    /\ data' = NoData
    /\ resp' = NoResponse
    /\ UNCHANGED <<COOKIE_DOMAIN, jar, issuedFor>>

\* Depends(get_current_user) runs before the route's handler
GetCurrentUser ==
    /\ pc = "gate"
    /\ gate' = get_current_user(req.cookie, req.header)
    /\ IF gate'.raised
       THEN /\ resp' = HttpError(gate'.status, PyStr(gate'.detail))
            /\ pc' = "done"
       ELSE /\ resp' = resp
            /\ pc' = "handler"
    /\ UNCHANGED <<COOKIE_DOMAIN, jar, issuedFor, req, outbound, upstream, data>>

\* GET /api/config
get_config ==
    /\ pc = "handler"
    /\ req.route = "/api/config"
    /\ resp' = [NoResponse EXCEPT !.status = 200,
                                  !.content = PyDict([user_id |-> gate.user.f.id])]
    /\ pc' = "done"
    /\ UNCHANGED <<COOKIE_DOMAIN, jar, issuedFor, req, gate, outbound, upstream, data>>

\* GET /
prompts_ui ==
    /\ pc = "handler"
    /\ req.route = "/"
    /\ resp' = [NoResponse EXCEPT !.status = 200, !.content = PyDict([user |-> gate.user])]
    /\ pc' = "done"
    /\ UNCHANGED <<COOKIE_DOMAIN, jar, issuedFor, req, gate, outbound, upstream, data>>

\* GET /api/litellm/models, up to the await: fetch_models issues its GET
FetchSend ==
    /\ pc = "handler"
    /\ req.route = "/api/litellm/models"
    /\ outbound' = outbound + 1
    /\ pc' = "await"
    /\ UNCHANGED <<COOKIE_DOMAIN, jar, issuedFor, req, gate, upstream, data, resp>>

\* GET /api/litellm/models, from the await on: the upstream answers or fails,
\* fetch_models returns its record and the route answers
FetchReceive ==
    /\ pc = "await"
    /\ \E up \in Upstream(MaxRouteData) :
         /\ upstream' = up
         /\ data' = fetch_models(up)
         /\ resp' = models_response(gate.user, data')
    /\ pc' = "done"
    /\ UNCHANGED <<COOKIE_DOMAIN, jar, issuedFor, req, gate, outbound>>

\* POST /auth
PostAuth ==
    /\ pc = "idle"
    /\ \E token \in FormTokens, user_id \in UserIds, fault \in BOOLEAN :
         /\ req' = [NoRequest EXCEPT !.route = "/auth", !.token = token,
                                     !.user_id = user_id, !.fault = fault]
         /\ resp' = authenticate(token, user_id, COOKIE_DOMAIN, fault)
    /\ pc' = "done"
    /\ gate' = NoGate
    /\ outbound' = 0
    /\ upstream' = NoUpstream
    /\ data' = NoData
    /\ UNCHANGED <<COOKIE_DOMAIN, jar, issuedFor>>

\* the client takes the response; a Set-Cookie replaces the cookie of its jar.
\* Nothing of the request outlives it on the server.
\* A token is made of cookie-safe characters, so the jar holds the value as set.
ClientReceive ==
    /\ pc = "done"
    /\ IF resp.set_cookie # None
       THEN /\ jar' = PyStr(resp.set_cookie.f.value)
            /\ issuedFor' = req.user_id
       ELSE UNCHANGED <<jar, issuedFor>>
    /\ pc' = "idle"
    /\ req' = NoRequest
    /\ gate' = NoGate
    /\ outbound' = 0
    /\ upstream' = NoUpstream
    /\ data' = NoData
    /\ resp' = NoResponse
    /\ UNCHANGED COOKIE_DOMAIN

Next ==
    \/ NewRequest
    \/ GetCurrentUser
    \/ get_config
    \/ prompts_ui
    \/ FetchSend
    \/ FetchReceive
    \/ PostAuth
    \/ ClientReceive

Spec == Init /\ [][Next]_vars

(***************************************************************************)
(* fetch_models on its own: a caller hands it every upstream outcome.      *)
(***************************************************************************)
FetchCall ==
    /\ pc = "idle"
    /\ \E up \in Upstream(MaxData) :
         /\ data' = fetch_models(up)
         /\ req' = [NoRequest EXCEPT !.route = "fetch_models"]
         /\ upstream' = up
    /\ outbound' = 1
    /\ pc' = "returned"
    /\ UNCHANGED <<COOKIE_DOMAIN, jar, issuedFor, gate, resp>>

FetchReturn ==
    /\ pc = "returned"
    /\ pc' = "idle"
    /\ req' = NoRequest
    /\ outbound' = 0
    /\ upstream' = NoUpstream
    /\ data' = NoData
    /\ UNCHANGED <<COOKIE_DOMAIN, jar, issuedFor, gate, resp>>

NextFetch == FetchCall \/ FetchReturn

SpecFetch == Init /\ [][NextFetch]_vars

(***************************************************************************)
(* Properties.                                                             *)
(***************************************************************************)
\* the gate has run for the request in hand
GateDone == req.route \in ProtectedRoutes /\ pc \in {"handler", "await", "done"}

\* POST /auth has run for the request in hand
AuthDone == req.route = "/auth" /\ pc = "done"

\* the claims of a token that decodes
ClaimsOf(token) == jwt_decode(token).payload

\* C1: for a selected token that is correctly signed and unexpired, the gate
\* returns the identity {email: sub, id: id} whenever both claims are present
\* (whatever the id, 0 included), and fails with 401 when one is missing.
C1_PresentClaimsSuffice ==
    (GateDone /\ Truthy(gate.token) /\ jwt_decode(gate.token.s).ok) =>
        LET c == ClaimsOf(gate.token.s)
        IN  IF {"sub", "id"} \subseteq DOMAIN c
            THEN ~gate.raised /\ gate.user = PyDict([email |-> c.sub, id |-> c.id])
            ELSE gate.raised /\ gate.status = 401

\* a claim that is absent, or present and empty
Missing(v) == v = None \/ v = PyStr("")

\* C2: the gate classifies a failure by the first failing check: no token ->
\* 401 "No token provided"; decode fails -> 401 "Invalid or expired token";
\* sub or id missing or empty -> 401 "Invalid token payload".
C2_ThreeWayClassification ==
    GateDone =>
        IF ~Truthy(gate.token)
        THEN gate.raised /\ gate.status = 401 /\ gate.detail = "No token provided"
        ELSE IF ~jwt_decode(gate.token.s).ok
        THEN gate.raised /\ gate.status = 401 /\ gate.detail = "Invalid or expired token"
        ELSE IF \/ Missing(payload_get(ClaimsOf(gate.token.s), "sub"))
                \/ Missing(payload_get(ClaimsOf(gate.token.s), "id"))
        THEN gate.raised /\ gate.status = 401 /\ gate.detail = "Invalid token payload"
        ELSE TRUE

\* C3: with a non-empty session cookie the gate decides on the cookie alone,
\* whatever the Authorization header: the token decoded is the cookie, the
\* identity is the cookie's, and a cookie that does not verify is a 401.
C3_CookiePrecedence ==
    (GateDone /\ Truthy(req.cookie)) =>
        /\ gate.token = req.cookie
        /\ LET d == jwt_decode(req.cookie.s)
               sub == payload_get(d.payload, "sub")
               id == payload_get(d.payload, "id")
           IN  IF d.ok /\ Truthy(sub) /\ Truthy(id)
               THEN ~gate.raised /\ gate.user = PyDict([email |-> sub, id |-> id])
               ELSE gate.raised /\ gate.status = 401

\* a valid cookie together with a header that carries a forged token
C3_Witness ==
    /\ GateDone
    /\ req.cookie = PyStr("t.a1")
    /\ req.header = PyStr("Bearer t.forged1")
    /\ ~gate.raised
    /\ gate.user.f.id = PyInt(1)

\* C4: without a cookie, a header that starts with "Bearer " hands the decoder
\* exactly what follows that prefix; any other header is no token at all.
C4_TokenIsRemainder ==
    (GateDone /\ ~Truthy(req.cookie)) =>
        IF Truthy(req.header) /\ StartsWith(req.header.s, "Bearer ")
        THEN gate.token = PyStr(Drop(req.header.s, Len("Bearer ")))
        ELSE gate.raised /\ gate.status = 401 /\ gate.detail = "No token provided"

\* C5: for a token that decodes, POST /auth answers 303 with the cookie iff the
\* id claim equals user_id; a mismatch (a token without id included) is 400
\* "User ID mismatch" without a cookie; the cookie carries the token as
\* submitted, and a domain only when COOKIE_DOMAIN is set non-empty.
C5_IssueIffIdMatches ==
    (AuthDone /\ jwt_decode(req.token).ok) =>
        LET match == payload_get(ClaimsOf(req.token), "id") = PyInt(req.user_id)
        IN  /\ (match /\ ~req.fault) => (resp.status = 303 /\ resp.set_cookie # None)
            /\ resp.status = 303 => match
            /\ ~match => /\ resp.status = 400
                         /\ resp.detail = PyStr("User ID mismatch")
                         /\ resp.set_cookie = None
            /\ resp.set_cookie # None =>
                 /\ resp.status = 303
                 /\ resp.set_cookie.f.key = ACCESS_TOKEN
                 /\ resp.set_cookie.f.value = req.token
                 /\ ("domain" \in DOMAIN resp.set_cookie.f) <=> Truthy(COOKIE_DOMAIN)
                 /\ Truthy(COOKIE_DOMAIN) => resp.set_cookie.f.domain = COOKIE_DOMAIN.s

\* a cookie issued while COOKIE_DOMAIN is set to the empty string
C5_Witness ==
    /\ AuthDone
    /\ COOKIE_DOMAIN = PyStr("")
    /\ resp.status = 303
    /\ resp.set_cookie # None
    /\ resp.set_cookie.f.value = "t.a1"

\* C6: a token that does not verify fails at both places whatever its claims
\* and whatever user_id is submitted: the gate answers 401 without an identity,
\* POST /auth answers 401 "Invalid token" (never 400) without a cookie; and any
\* other exception during issuance is a 500 without a cookie.
C6_UnverifiedTokenFails ==
    /\ (GateDone /\ Truthy(gate.token) /\ ~jwt_decode(gate.token.s).ok) =>
           (gate.raised /\ gate.status = 401 /\ gate.user = None /\ resp.status = 401)
    /\ (AuthDone /\ ~jwt_decode(req.token).ok) =>
           /\ resp.status = 401
           /\ resp.detail = PyStr("Invalid token")
           /\ resp.set_cookie = None
    /\ (AuthDone /\ req.fault /\ resp.status \notin {400, 401}) =>
           /\ resp.status = 500
           /\ resp.set_cookie = None

\* a forged token with the claims of user 1, submitted for user 1
C6_Witness ==
    /\ AuthDone
    /\ req.token = "t.forged1"
    /\ req.user_id = 1
    /\ resp.status = 401

\* fetch_models has returned to its caller
Returned == pc = "returned"

Is2xx(up) == up.kind = "response" /\ up.status >= 200 /\ up.status <= 299

\* C7: whatever the upstream does, fetch_models returns a record with the keys
\* service = "litellm", base_url, models, error; an error means no models; no
\* error only on the success path; a non-2xx answer gives "HTTP <status>: "
\* and at most the first 200 characters of the body, a transport failure
\* "Connection failed: ...", anything else "<ExceptionType>: <message>".
C7_ErrorExcludesModels ==
    Returned =>
        /\ DOMAIN data = {"service", "base_url", "models", "error"}
        /\ data.service = "litellm"
        /\ data.base_url = LITELLM_URL
        /\ data.models.t = "list"
        /\ data.error # None => (data.error.t = "str" /\ data.models = PyList(<<>>))
        /\ data.error = None => (Is2xx(upstream) /\ upstream.json # NotJson)
        /\ (upstream.kind = "response" /\ ~Is2xx(upstream)) =>
              LET head == "HTTP " \o IntToStr(upstream.status) \o ": "
                  tail == Drop(data.error.s, Len(head))
              IN  /\ StartsWith(data.error.s, head)
                  /\ Len(tail) <= TextLimit
                  /\ StartsWith(upstream.text, tail)
                  /\ Len(upstream.text) <= TextLimit => tail = upstream.text
        /\ upstream.kind = "RequestError" =>
              data.error = PyStr("Connection failed: " \o upstream.msg)
        /\ upstream.kind = "Exception" =>
              data.error = PyStr(upstream.type \o ": " \o upstream.msg)
        /\ (Is2xx(upstream) /\ data.error # None) =>
              \E type \in {"JSONDecodeError", "AttributeError", "TypeError"} :
                  StartsWith(data.error.s, type \o ": ")

\* a 503 whose body runs past the cut
C7_Witness ==
    /\ Returned
    /\ upstream.kind = "response"
    /\ upstream.status = 503
    /\ Len(upstream.text) > TextLimit
    /\ Len(data.error.s) = Len("HTTP 503: ") + TextLimit

\* does the descriptor match: model_info an object whose mode is "chat"
IsChat(m) ==
    /\ "model_info" \in DOMAIN m.f
    /\ m.f.model_info.t = "dict"
    /\ "mode" \in DOMAIN m.f.model_info.f
    /\ m.f.model_info.f.mode = PyStr("chat")

\* the model_name values of the matching descriptors, in their order
RECURSIVE ChatNames(_)
ChatNames(l) ==
    IF l = <<>> THEN <<>>
    ELSE (IF IsChat(Head(l))
          THEN <<IF "model_name" \in DOMAIN Head(l).f THEN Head(l).f.model_name ELSE None>>
          ELSE <<>>) \o ChatNames(Tail(l))

\* a 2xx answer whose body is an object with a `data` list of objects
DescriptorList(up) ==
    /\ Is2xx(up)
    /\ up.json.t = "dict"
    /\ "data" \in DOMAIN up.json.f
    /\ up.json.f.data.t = "list"
    /\ \A i \in 1..Len(up.json.f.data.items) : up.json.f.data.items[i].t = "dict"

\* C8: on a 2xx answer fetch_models returns no error and the model_name values,
\* in order, of exactly the descriptors whose model_info.mode is "chat"; a
\* descriptor with missing or malformed nested fields is left out and does not
\* make the call an error.
C8_MalformedIsExcluded ==
    (Returned /\ DescriptorList(upstream)) =>
        /\ data.error = None
        /\ data.models = PyList(ChatNames(upstream.json.f.data.items))

ModelsRoute == req.route = "/api/litellm/models"

\* C9: on GET /api/litellm/models the GET to the catalog goes out only after
\* the gate has succeeded for the request; a request the gate refuses ends in
\* 401 with no GET; after the gate exactly one GET is made; the route answers
\* 200 with the result and user_id iff the result has no error, and otherwise
\* 500 with the error as its detail.
C9_GateBeforeFetch ==
    /\ outbound > 0 => (ModelsRoute /\ GateDone /\ ~gate.raised /\ gate.user # None)
    /\ outbound <= 1
    /\ (GateDone /\ gate.raised) => (pc = "done" /\ resp.status = 401 /\ outbound = 0)
    /\ (ModelsRoute /\ pc = "done" /\ ~gate.raised) =>
           /\ outbound = 1
           /\ data.error = None =>
                 /\ resp.status = 200
                 /\ resp.content = PyDict(data @@ [user_id |-> gate.user.f.id])
           /\ data.error # None =>
                 /\ resp.status = 500
                 /\ resp.detail = data.error
           /\ resp.status = 200 => data.error = None

\* the one GET timed out and the route answered 500 with the captured error
C9_Witness ==
    /\ ModelsRoute
    /\ pc = "done"
    /\ outbound = 1
    /\ upstream.type = "ReadTimeout"
    /\ resp.status = 500
    /\ resp.detail = PyStr("Connection failed: ")

\* C10: a request that presents the cookie POST /auth has set is accepted by the
\* gate, with the identity id equal to the user_id the cookie was issued for.
C10_IssuedCookieIsAccepted ==
    (GateDone /\ req.viaJar) => (~gate.raised /\ gate.user.f.id = PyInt(issuedFor))

====
